---- MODULE Spec2Model ----
(***************************************************************************)
(* Bit-packing codecs of src/bit_packing.py: SimpleBitPacking,             *)
(* AlignedBitPacking, OverflowBitPacking and ZigZagBitPacking.             *)
(*                                                                         *)
(* Python integers are unbounded and the packed words reach 2^32 - 1, so   *)
(* an integer is modelled by its two's complement bit set: the set of the  *)
(* positions 0 .. IntBits-1 whose bit is 1, plus the position IntBits when *)
(* the integer is negative (the sign, extended infinitely to the left, as  *)
(* Python's bitwise operators see it).  Lengths, indexes and bit widths    *)
(* stay ordinary integers.                                                 *)
(***************************************************************************)
EXTENDS Integers, Sequences, FiniteSets, TLC

\* ------------------------------------------------------------------ bounds
\* position of the sign in the bit-set form of a Python integer
IntBits == 34
\* the caller's sequences over Vals have at most MaxLen elements
MaxLen == 2
\* get is called with indexes -1 .. MaxIndex
MaxIndex == 5

\* ------------------------------------------------ Python integer arithmetic
\* the highest position of a non-empty bit set, searched from position b down
RECURSIVE HighestFrom(_, _)
HighestFrom(S, b) == IF b \in S \/ b = 0 THEN b ELSE HighestFrom(S, b - 1)
SetMax(S) == HighestFrom(S, IntBits)

\* the number whose binary digits are the bits base .. b of a, by Horner's rule
RECURSIVE Horner(_, _, _, _)
Horner(a, base, b, acc) ==
    IF b < base THEN acc
    ELSE Horner(a, base, b - 1, 2 * acc + (IF b \in a THEN 1 ELSE 0))

\* the positions base, base+1, .. base+count-1 at which the binary digits of
\* the natural number n are 1
BitsOf(n, base, count) == {base + k : k \in {j \in 0..(count - 1) : (n \div (2^j)) % 2 = 1}}

\* an integer is handled as a low limb (bits 0..29) and a high limb (bits
\* 30..IntBits), each within the range of a model integer
Low(a) == Horner(a, 0, 29, 0)
High(a) == Horner(a, 30, IntBits, 0)
Limbs(low, high) ==
    BitsOf(low % (2^30), 0, 30) \cup BitsOf(high % (2^(IntBits - 29)), 30, IntBits - 29)

\* the Python integer n, for a model integer n
PyInt(n) == Limbs(n, n \div (2^30))

\* the model integer of a non-negative Python integer below 2^30 (a list index)
ToNat(a) == Low(a)

IsNeg(a) == IntBits \in a

\* a & b, a | b, a ^ b
BitAnd(a, b) == a \cap b
BitOr(a, b) == a \cup b
BitXor(a, b) == (a \ b) \cup (b \ a)

\* a << n
Shl(a, n) == {b + n : b \in {x \in a : x < IntBits /\ x + n < IntBits}}
             \cup (IF IsNeg(a) THEN {IntBits} ELSE {})

\* a >> n (arithmetic: the sign fills the vacated positions)
Shr(a, n) == {b - n : b \in {x \in a : x < IntBits /\ x >= n}}
             \cup (IF IsNeg(a) THEN {x \in 0..IntBits : x >= IntBits - n} ELSE {})

\* (1 << n) - 1
Mask(n) == 0..(n - 1)

\* a + b, a - b, -a
Add(a, b) ==
    LET low == Low(a) + Low(b)
    IN Limbs(low, High(a) + High(b) + (low \div (2^30)))
Sub(a, b) ==
    LET low == Low(a) - Low(b)
    IN Limbs(low, High(a) - High(b) + (low \div (2^30)))
Negate(a) == Sub({}, a)

\* a < b, a > b
Less(a, b) ==
    IF IsNeg(a) # IsNeg(b) THEN IsNeg(a)
    ELSE \E m \in b \ a : \A y \in a \ b : y < m
Greater(a, b) == Less(b, a)

\* int.bit_length(): the bits of the magnitude
BitLength(a) ==
    LET m == IF IsNeg(a) THEN Negate(a) ELSE a
    IN IF m = {} THEN 0 ELSE SetMax(m) + 1

Range(s) == {s[k] : k \in 1..Len(s)}

\* min(array), max(array) of a non-empty list
MinOf(array) == CHOOSE x \in Range(array) : \A y \in Range(array) : ~Less(y, x)
MaxOf(array) == CHOOSE x \in Range(array) : \A y \in Range(array) : ~Less(x, y)

\* Python evaluates a statement before the next one runs; an operator's argument
\* is evaluated when it is first used, and Evaluated(v) is such a use
Evaluated(v) == v = v

\* [0] * n
Zeros(n) == [k \in 1..n |-> {}]

\* a list built element by element (a comprehension or an append loop)
ListOf(f) == <<>> \o f

\* array[lo:hi] and array[lo:] of Python, 0-based, hi exclusive
Slice(array, lo, hi) ==
    LET h == IF hi < Len(array) THEN hi ELSE Len(array)
    IN IF lo >= h THEN <<>> ELSE ListOf([k \in 1..(h - lo) |-> array[lo + k]])
SliceFrom(array, lo) == Slice(array, lo, Len(array))

\* ---------------------------------------------------------- BitPackingBase
\* max_val - min_val when min_val < 0, else max_val
range_val(min_val, max_val) ==
    IF IsNeg(min_val) THEN Sub(max_val, min_val) ELSE max_val

\* faulty variant (mutation): the floor of log2 of the range instead of its bit length
bits_of_range_Log2(range) ==
    IF BitLength(range) > 1 THEN BitLength(range) - 1 ELSE 1

\* faulty variant (mutation): a range of 0 gets the width 0
bits_of_range_NoFloor(range) == BitLength(range)

\* range_val.bit_length() if range_val > 0 else 1
bits_of_range(range) ==
    IF Greater(range, {}) THEN BitLength(range) ELSE 1

calculate_bits_needed(array) ==
    IF array = <<>> THEN 0
    ELSE bits_of_range(range_val(MinOf(array), MaxOf(array)))

\* -------------------------------------------------------- SimpleBitPacking
\* the array left by _write_bits; the call raises IndexError instead when
\* Simple_write_raises holds
Simple_write_raises(array, start_bit, num_bits) ==
    num_bits # 0 /\ start_bit \div 32 >= Len(array)

\* faulty variant (mutation): the part of a field that belongs in the next word is not written
Simple_write_bits_NoStraddle(array, start_bit, num_bits, value) ==
    IF num_bits = 0 THEN array
    ELSE LET v == BitAnd(value, Mask(num_bits))
             int_index == start_bit \div 32
             bit_offset == start_bit % 32
         IN [array EXCEPT ![int_index + 1] =
                BitOr(@, BitAnd(Shl(v, bit_offset), Mask(32)))]

Simple_write_bits(array, start_bit, num_bits, value) ==
    IF num_bits = 0 THEN array
    ELSE LET v == BitAnd(value, Mask(num_bits))
             int_index == start_bit \div 32
             bit_offset == start_bit % 32
         IN IF bit_offset + num_bits <= 32
            THEN [array EXCEPT ![int_index + 1] = BitOr(@, Shl(v, bit_offset))]
            ELSE LET bits_in_first == 32 - bit_offset
                     first_mask == Mask(bits_in_first)
                     first == [array EXCEPT ![int_index + 1] =
                                  BitOr(@, Shl(BitAnd(v, first_mask), bit_offset))]
                 IN IF int_index + 1 < Len(array)
                    THEN [first EXCEPT ![int_index + 2] = BitOr(@, Shr(v, bits_in_first))]
                    ELSE first

\* faulty variant (mutation): a field that straddles two words is read from the first word only
Simple_read_bits_FirstWordOnly(array, start_bit, num_bits) ==
    IF num_bits = 0 THEN {}
    ELSE LET int_index == start_bit \div 32
             bit_offset == start_bit % 32
         IN IF int_index >= Len(array) THEN {}
            ELSE BitAnd(BitAnd(Shr(array[int_index + 1], bit_offset), Mask(num_bits)),
                        Mask(32 - bit_offset))

Simple_read_bits(array, start_bit, num_bits) ==
    IF num_bits = 0 THEN {}
    ELSE LET int_index == start_bit \div 32
             bit_offset == start_bit % 32
         IN IF int_index >= Len(array) THEN {}
            ELSE IF bit_offset + num_bits <= 32
            THEN BitAnd(Shr(array[int_index + 1], bit_offset), Mask(num_bits))
            ELSE LET bits_in_first == 32 - bit_offset
                     bits_in_second == num_bits - bits_in_first
                     first_part == BitAnd(Shr(array[int_index + 1], bit_offset),
                                          Mask(bits_in_first))
                 IN IF int_index + 1 < Len(array)
                    THEN BitOr(first_part,
                               Shl(BitAnd(array[int_index + 2], Mask(bits_in_second)),
                                   bits_in_first))
                    ELSE first_part

\* the packing loop of compress for the element indexes lo .. hi - 1, in
\* order: the first half of the range, then the second
RECURSIVE Simple_pack(_, _, _, _, _)
Simple_pack(compressed, array, bits, lo, hi) ==
    IF hi <= lo \/ ~Evaluated(compressed) THEN compressed
    ELSE IF hi = lo + 1
    THEN Simple_write_bits(compressed, lo * bits, bits, array[lo + 1])
    ELSE Simple_pack(Simple_pack(compressed, array, bits, lo, (lo + hi) \div 2),
                     array, bits, (lo + hi) \div 2, hi)

\* the words compress packs at the width bits_per_element
Simple_packed(array, bits_per_element) ==
    LET total_bits == Len(array) * bits_per_element
        num_output_ints == (total_bits + 31) \div 32
    IN Simple_pack(Zeros(num_output_ints), array, bits_per_element, 0, Len(array))

\* faulty variant (mutation): the packed words are appended to the stored list, not assigned
Simple_store_Extend(self, array, bits_per_element, compressed) ==
    [self |-> [self EXCEPT !.original_length = Len(array),
                           !.bits_per_element = bits_per_element,
                           !.compressed_data = @ \o compressed],
     ret |-> compressed]

\* the fields compress assigns and the list it returns
Simple_store(self, array, bits_per_element, compressed) ==
    [self |-> [self EXCEPT !.original_length = Len(array),
                           !.bits_per_element = bits_per_element,
                           !.compressed_data = compressed],
     ret |-> compressed]

\* compress: the instance after the call and the returned list
Simple_compress(self, array) ==
    IF array = <<>> THEN [self |-> self, ret |-> <<>>]
    ELSE Simple_store(self, array, calculate_bits_needed(array),
                      Simple_packed(array, calculate_bits_needed(array)))

Simple_decompress(self, compressed_array) ==
    IF compressed_array = <<>> THEN [self |-> self, ret |-> <<>>]
    ELSE [self |-> self,
          ret |-> ListOf([k \in 1..self.original_length |->
                      Simple_read_bits(compressed_array, (k - 1) * self.bits_per_element,
                                       self.bits_per_element)])]

\* get: error is "IndexError" when the call raises, value is the result otherwise
Simple_get(self, index) ==
    IF index < 0 \/ index >= self.original_length
    THEN [self |-> self, error |-> "IndexError", value |-> {}]
    ELSE [self |-> self, error |-> "none",
          value |-> Simple_read_bits(self.compressed_data, index * self.bits_per_element,
                                     self.bits_per_element)]

\* ------------------------------------------------------- AlignedBitPacking
\* faulty variant (mutation): every element takes a word of its own
elements_per_int_One(bits_per_element) == 1

\* faulty variant (mutation): a word takes one more element than fits whole
elements_per_int_Ceil(bits_per_element) ==
    IF bits_per_element > 0 THEN (32 + bits_per_element - 1) \div bits_per_element ELSE 32

\* 32 // bits_per_element if bits_per_element > 0 else 32
elements_per_int(bits_per_element) ==
    IF bits_per_element > 0 THEN 32 \div bits_per_element ELSE 32

\* the packing loop of compress for the element indexes lo .. hi - 1, in
\* order (no mask, no straddling)
RECURSIVE Aligned_pack(_, _, _, _, _)
Aligned_pack(compressed, shifted_array, bits, lo, hi) ==
    IF hi <= lo \/ ~Evaluated(compressed) THEN compressed
    ELSE IF hi = lo + 1
    THEN LET output_index == lo \div elements_per_int(bits)
             element_index == lo % elements_per_int(bits)
             bit_offset == element_index * bits
         IN [compressed EXCEPT ![output_index + 1] =
                BitOr(@, Shl(shifted_array[lo + 1], bit_offset))]
    ELSE Aligned_pack(Aligned_pack(compressed, shifted_array, bits, lo, (lo + hi) \div 2),
                      shifted_array, bits, (lo + hi) \div 2, hi)

\* [value - self.min_value for value in array]
Aligned_shifted(array, min_value) ==
    ListOf([k \in 1..Len(array) |-> Sub(array[k], min_value)])

\* the data words compress packs at the width bits_per_element
Aligned_packed(shifted_array, bits_per_element) ==
    LET per_int == elements_per_int(bits_per_element)
        num_output_ints == (Len(shifted_array) + per_int - 1) \div per_int
    IN Aligned_pack(Zeros(num_output_ints), shifted_array, bits_per_element, 0,
                    Len(shifted_array))

\* faulty variant (mutation): the data words are returned without the word of min_value
Aligned_store_NoHeader(self, array, min_value, bits_per_element, compressed) ==
    [self |-> [self EXCEPT !.original_length = Len(array),
                           !.min_value = min_value,
                           !.bits_per_element = bits_per_element,
                           !.compressed_data = compressed],
     ret |-> compressed]

\* the fields compress assigns and the list it returns: min_value, then the data words
Aligned_store(self, array, min_value, bits_per_element, compressed) ==
    [self |-> [self EXCEPT !.original_length = Len(array),
                           !.min_value = min_value,
                           !.bits_per_element = bits_per_element,
                           !.compressed_data = <<min_value>> \o compressed],
     ret |-> <<min_value>> \o compressed]

\* compress once min_value and the shifted list are known
Aligned_compress_shifted(self, array, min_value, shifted_array) ==
    Aligned_store(self, array, min_value, calculate_bits_needed(shifted_array),
                  Aligned_packed(shifted_array, calculate_bits_needed(shifted_array)))

Aligned_compress(self, array) ==
    IF array = <<>> THEN [self |-> self, ret |-> <<>>]
    ELSE Aligned_compress_shifted(self, array, MinOf(array),
                                  Aligned_shifted(array, MinOf(array)))

\* faulty variant (mutation): the offset is not added back
Aligned_element_NoOffset(actual_compressed, bits_per_element, min_value, i) ==
    LET output_index == i \div elements_per_int(bits_per_element)
        element_index == i % elements_per_int(bits_per_element)
        bit_offset == element_index * bits_per_element
        mask == Mask(bits_per_element)
    IN IF output_index < Len(actual_compressed)
       THEN BitAnd(Shr(actual_compressed[output_index + 1], bit_offset), mask)
       ELSE {}

\* the element at index i of the data words actual_compressed, offset added back
Aligned_element(actual_compressed, bits_per_element, min_value, i) ==
    LET output_index == i \div elements_per_int(bits_per_element)
        element_index == i % elements_per_int(bits_per_element)
        bit_offset == element_index * bits_per_element
        mask == Mask(bits_per_element)
    IN IF output_index < Len(actual_compressed)
       THEN Add(BitAnd(Shr(actual_compressed[output_index + 1], bit_offset), mask),
                min_value)
       ELSE {}

\* decompress stores the first word of its argument in self.min_value
Aligned_decompress(self, compressed_array) ==
    IF Len(compressed_array) < 2 THEN [self |-> self, ret |-> <<>>]
    ELSE LET min_value == compressed_array[1]
             actual_compressed == SliceFrom(compressed_array, 1)
         IN [self |-> [self EXCEPT !.min_value = min_value],
             ret |-> ListOf([k \in 1..self.original_length |->
                         Aligned_element(actual_compressed, self.bits_per_element,
                                         min_value, k - 1)])]

\* faulty variant (mutation): the upper bound check is off by one
Aligned_get_OffByOne(self, index) ==
    IF index < 0 \/ index > self.original_length
    THEN [self |-> self, error |-> "IndexError", value |-> {}]
    ELSE [self |-> self, error |-> "none",
          value |-> Aligned_element(SliceFrom(self.compressed_data, 1),
                                    self.bits_per_element, self.min_value, index)]

Aligned_get(self, index) ==
    IF index < 0 \/ index >= self.original_length
    THEN [self |-> self, error |-> "IndexError", value |-> {}]
    ELSE [self |-> self, error |-> "none",
          value |-> Aligned_element(SliceFrom(self.compressed_data, 1),
                                    self.bits_per_element, self.min_value, index)]

\* ------------------------------------------------------ OverflowBitPacking
\* math.ceil(math.log2(n)) for n >= 1
RECURSIVE CeilLog2From(_, _)
CeilLog2From(n, b) == IF 2^b >= n THEN b ELSE CeilLog2From(n, b + 1)
CeilLog2(n) == CeilLog2From(n, 0)

\* faulty variant (mutation): half of max_bits is taken instead of 60%
threshold_bits_Half(max_bits) ==
    LET scaled == max_bits \div 2
    IN IF scaled > 3 THEN scaled ELSE 3

\* max(3, int(max_bits * 0.6))
threshold_bits(max_bits) ==
    LET scaled == (max_bits * 6) \div 10
    IN IF scaled > 3 THEN scaled ELSE 3

\* faulty variant (mutation): the side table is used below 20% of outliers instead of 30%
Overflow_threshold_strategy_Fifth(sorted_values, max_bits, main_bits) ==
    LET threshold_value == Mask(main_bits)
        overflow_values == {v \in sorted_values : Greater(v, threshold_value)}
        n_over == Cardinality(overflow_values)
    IN IF n_over > 0 /\ 10 * n_over < 2 * Cardinality(sorted_values)
       THEN [has_overflow_bit |-> TRUE,
             main_bits |-> main_bits,
             overflow_bits |-> IF n_over > 1 THEN CeilLog2(n_over + 1) ELSE 1,
             threshold_value |-> threshold_value]
       ELSE [has_overflow_bit |-> FALSE,
             main_bits |-> max_bits,
             overflow_bits |-> 0,
             threshold_value |-> threshold_value]

\* faulty variant (mutation): the side table is used below 90% of outliers instead of 30%
Overflow_threshold_strategy_NineTenths(sorted_values, max_bits, main_bits) ==
    LET threshold_value == Mask(main_bits)
        overflow_values == {v \in sorted_values : Greater(v, threshold_value)}
        n_over == Cardinality(overflow_values)
    IN IF n_over > 0 /\ 10 * n_over < 9 * Cardinality(sorted_values)
       THEN [has_overflow_bit |-> TRUE,
             main_bits |-> main_bits,
             overflow_bits |-> IF n_over > 1 THEN CeilLog2(n_over + 1) ELSE 1,
             threshold_value |-> threshold_value]
       ELSE [has_overflow_bit |-> FALSE,
             main_bits |-> max_bits,
             overflow_bits |-> 0,
             threshold_value |-> threshold_value]

\* the threshold strategy of _analyze_overflow_strategy, for the distinct values
\* sorted_values, the width max_bits of the maximum and main_bits = threshold_bits
Overflow_threshold_strategy(sorted_values, max_bits, main_bits) ==
    LET threshold_value == Mask(main_bits)
        overflow_values == {v \in sorted_values : Greater(v, threshold_value)}
        n_over == Cardinality(overflow_values)
    IN IF n_over > 0 /\ 10 * n_over < 3 * Cardinality(sorted_values)
       THEN [has_overflow_bit |-> TRUE,
             main_bits |-> main_bits,
             overflow_bits |-> IF n_over > 1 THEN CeilLog2(n_over + 1) ELSE 1,
             threshold_value |-> threshold_value]
       ELSE [has_overflow_bit |-> FALSE,
             main_bits |-> max_bits,
             overflow_bits |-> 0,
             threshold_value |-> threshold_value]

\* the four fields _analyze_overflow_strategy assigns
Overflow_analyze_overflow_strategy(array) ==
    IF array = <<>>
    THEN [has_overflow_bit |-> FALSE, main_bits |-> 1, overflow_bits |-> 0,
          threshold_value |-> {}]
    ELSE IF Cardinality(Range(array)) <= 1
    THEN [has_overflow_bit |-> FALSE,
          main_bits |-> calculate_bits_needed(array),
          overflow_bits |-> 0,
          threshold_value |-> MaxOf(array)]
    ELSE Overflow_threshold_strategy(Range(array), BitLength(MaxOf(array)),
                                     threshold_bits(BitLength(MaxOf(array))))

Overflow_needs_overflow(self, value) ==
    self.has_overflow_bit /\ Greater(value, self.threshold_value)

\* overflow_map[value]: the index value was given in overflow_data
IndexOf(list, value) == (CHOOSE k \in 1..Len(list) : list[k] = value) - 1

\* faulty variant (mutation): every occurrence of an overflow value is appended to overflow_data
Overflow_encode_value_NoMap(self, enc, value) ==
    IF Overflow_needs_overflow(self, value)
    THEN [main_values |-> Append(enc.main_values,
                                 BitOr(Shl({0}, self.main_bits),
                                       PyInt(Len(enc.overflow_data)))),
          overflow_data |-> Append(enc.overflow_data, value)]
    ELSE [main_values |-> Append(enc.main_values, value),
          overflow_data |-> enc.overflow_data]

\* one pass of the encoding loop of compress: value is appended to
\* enc.main_values, as it is or as a reference into enc.overflow_data
Overflow_encode_value(self, enc, value) ==
    IF Overflow_needs_overflow(self, value)
    THEN LET data == IF value \in Range(enc.overflow_data) THEN enc.overflow_data
                     ELSE Append(enc.overflow_data, value)
             encoded_value == BitOr(Shl({0}, self.main_bits),
                                    PyInt(IndexOf(data, value)))
         IN [main_values |-> Append(enc.main_values, encoded_value),
             overflow_data |-> data]
    ELSE [main_values |-> Append(enc.main_values, value),
          overflow_data |-> enc.overflow_data]

\* the encoding loop of compress for the element indexes lo .. hi - 1, in
\* order: the lists main_values and overflow_data it builds
RECURSIVE Overflow_encode(_, _, _, _, _)
Overflow_encode(self, array, lo, hi, enc) ==
    IF hi <= lo \/ ~Evaluated(enc) THEN enc
    ELSE IF hi = lo + 1 THEN Overflow_encode_value(self, enc, array[lo + 1])
    ELSE Overflow_encode(self, array, (lo + hi) \div 2, hi,
                         Overflow_encode(self, array, lo, (lo + hi) \div 2, enc))

\* faulty variant (mutation): the value is not masked to num_bits
Overflow_write_bits_NoMask(array, start_bit, num_bits, value) ==
    IF num_bits = 0 THEN array
    ELSE LET int_index == start_bit \div 32
             bit_offset == start_bit % 32
         IN IF int_index >= Len(array) THEN array
            ELSE IF bit_offset + num_bits <= 32
            THEN [array EXCEPT ![int_index + 1] = BitOr(@, Shl(value, bit_offset))]
            ELSE LET bits_in_first == 32 - bit_offset
                     first_mask == Mask(bits_in_first)
                     first == [array EXCEPT ![int_index + 1] =
                                  BitOr(@, Shl(BitAnd(value, first_mask), bit_offset))]
                 IN IF int_index + 1 < Len(array)
                    THEN [first EXCEPT ![int_index + 2] = BitOr(@, Shr(value, bits_in_first))]
                    ELSE first

Overflow_write_bits(array, start_bit, num_bits, value) ==
    IF num_bits = 0 THEN array
    ELSE LET v == BitAnd(value, Mask(num_bits))
             int_index == start_bit \div 32
             bit_offset == start_bit % 32
         IN IF int_index >= Len(array) THEN array
            ELSE IF bit_offset + num_bits <= 32
            THEN [array EXCEPT ![int_index + 1] = BitOr(@, Shl(v, bit_offset))]
            ELSE LET bits_in_first == 32 - bit_offset
                     first_mask == Mask(bits_in_first)
                     first == [array EXCEPT ![int_index + 1] =
                                  BitOr(@, Shl(BitAnd(v, first_mask), bit_offset))]
                 IN IF int_index + 1 < Len(array)
                    THEN [first EXCEPT ![int_index + 2] = BitOr(@, Shr(v, bits_in_first))]
                    ELSE first

\* a read that takes the word index modulo the length of the array
Overflow_read_bits_Wrap(array, start_bit, num_bits) ==
    IF num_bits = 0 \/ array = <<>> THEN {}
    ELSE LET int_index == (start_bit \div 32) % Len(array)
             bit_offset == start_bit % 32
         IN IF bit_offset + num_bits <= 32
            THEN BitAnd(Shr(array[int_index + 1], bit_offset), Mask(num_bits))
            ELSE BitOr(BitAnd(Shr(array[int_index + 1], bit_offset), Mask(32 - bit_offset)),
                       Shl(BitAnd(array[((int_index + 1) % Len(array)) + 1],
                                  Mask(num_bits - (32 - bit_offset))),
                           32 - bit_offset))

Overflow_read_bits(array, start_bit, num_bits) ==
    IF num_bits = 0 THEN {}
    ELSE LET int_index == start_bit \div 32
             bit_offset == start_bit % 32
         IN IF int_index >= Len(array) THEN {}
            ELSE IF bit_offset + num_bits <= 32
            THEN BitAnd(Shr(array[int_index + 1], bit_offset), Mask(num_bits))
            ELSE LET bits_in_first == 32 - bit_offset
                     bits_in_second == num_bits - bits_in_first
                     first_part == BitAnd(Shr(array[int_index + 1], bit_offset),
                                          Mask(bits_in_first))
                 IN IF int_index + 1 < Len(array)
                    THEN BitOr(first_part,
                               Shl(BitAnd(array[int_index + 2], Mask(bits_in_second)),
                                   bits_in_first))
                    ELSE first_part

\* the packing loop of compress for the element indexes lo .. hi - 1, in order
RECURSIVE Overflow_pack(_, _, _, _, _)
Overflow_pack(compressed, main_values, bits, lo, hi) ==
    IF hi <= lo \/ ~Evaluated(compressed) THEN compressed
    ELSE IF hi = lo + 1
    THEN Overflow_write_bits(compressed, lo * bits, bits, main_values[lo + 1])
    ELSE Overflow_pack(Overflow_pack(compressed, main_values, bits, lo, (lo + hi) \div 2),
                       main_values, bits, (lo + hi) \div 2, hi)

\* faulty variant (mutation): the flag takes two bits
total_bits_per_element_Wide(self) ==
    self.main_bits + (IF self.has_overflow_bit THEN 2 ELSE 0)

\* main_bits + (1 if has_overflow_bit else 0)
total_bits_per_element(self) == self.main_bits + (IF self.has_overflow_bit THEN 1 ELSE 0)

\* the instance once _analyze_overflow_strategy has assigned its fields
Overflow_analysed(self, array, strategy) ==
    [self EXCEPT !.original_length = Len(array),
                 !.has_overflow_bit = strategy.has_overflow_bit,
                 !.main_bits = strategy.main_bits,
                 !.overflow_bits = strategy.overflow_bits,
                 !.threshold_value = strategy.threshold_value]

\* the main words compress packs at per_element bits for each element
Overflow_packed(main_values, per_element) ==
    LET total_bits == Len(main_values) * per_element
        num_output_ints == (total_bits + 31) \div 32
    IN Overflow_pack(Zeros(num_output_ints), main_values, per_element, 0,
                     Len(main_values))

\* the fields compress assigns and the list it returns: the main words, then
\* the overflow values
Overflow_store(self, overflow_data, compressed) ==
    [self |-> [self EXCEPT !.overflow_data = overflow_data,
                           !.compressed_data = compressed \o overflow_data],
     ret |-> compressed \o overflow_data]

\* compress once the encoding loop has built main_values and overflow_data
Overflow_compress_encoded(self, enc) ==
    Overflow_store(self, enc.overflow_data,
                   Overflow_packed(enc.main_values, total_bits_per_element(self)))

\* compress once the strategy is assigned
Overflow_compress_analysed(self, array) ==
    Overflow_compress_encoded(self,
        Overflow_encode(self, array, 0, Len(array),
                        [main_values |-> <<>>, overflow_data |-> <<>>]))

Overflow_compress(self, array) ==
    IF array = <<>> THEN [self |-> self, ret |-> <<>>]
    ELSE Overflow_compress_analysed(
             Overflow_analysed(self, array, Overflow_analyze_overflow_strategy(array)),
             array)

\* faulty variant (mutation): the flag bit is not looked at, every field is taken as a direct value
Overflow_decode_NoFlag(self, overflow_data, encoded_value) ==
    BitAnd(encoded_value, Mask(self.main_bits))

\* faulty variant (mutation): an index past the overflow words names the last of them
Overflow_decode_Clamp(self, overflow_data, encoded_value) ==
    LET overflow_mask == IF self.has_overflow_bit THEN Shl({0}, self.main_bits) ELSE {}
        value_mask == Mask(self.main_bits)
    IN IF self.has_overflow_bit /\ BitAnd(encoded_value, overflow_mask) # {}
       THEN LET overflow_index == ToNat(BitAnd(encoded_value, value_mask))
            IN IF overflow_index < Len(overflow_data)
               THEN overflow_data[overflow_index + 1]
               ELSE IF overflow_data = <<>> THEN {}
               ELSE overflow_data[Len(overflow_data)]
       ELSE BitAnd(encoded_value, value_mask)

\* the value an encoded field stands for: a direct value, or the overflow
\* value its index names
Overflow_decode(self, overflow_data, encoded_value) ==
    LET overflow_mask == IF self.has_overflow_bit THEN Shl({0}, self.main_bits) ELSE {}
        value_mask == Mask(self.main_bits)
    IN IF self.has_overflow_bit /\ BitAnd(encoded_value, overflow_mask) # {}
       THEN LET overflow_index == ToNat(BitAnd(encoded_value, value_mask))
            IN IF overflow_index < Len(overflow_data)
               THEN overflow_data[overflow_index + 1]
               ELSE {}
       ELSE BitAnd(encoded_value, value_mask)

\* the value of element index, read from the main words and the overflow words
Overflow_element(self, main_compressed, overflow_data, index) ==
    Overflow_decode(self, overflow_data,
                    Overflow_read_bits(main_compressed,
                                       index * total_bits_per_element(self),
                                       total_bits_per_element(self)))

\* (total_bits + 31) // 32 of decompress and get
num_main_ints(self) == (self.original_length * total_bits_per_element(self) + 31) \div 32

Overflow_decompress(self, compressed_array) ==
    IF compressed_array = <<>> THEN [self |-> self, ret |-> <<>>]
    ELSE [self |-> self,
          ret |-> ListOf([k \in 1..self.original_length |->
                      Overflow_element(self,
                                       Slice(compressed_array, 0, num_main_ints(self)),
                                       SliceFrom(compressed_array, num_main_ints(self)),
                                       k - 1)])]

Overflow_get(self, index) ==
    IF index < 0 \/ index >= self.original_length
    THEN [self |-> self, error |-> "IndexError", value |-> {}]
    ELSE [self |-> self, error |-> "none",
          value |-> Overflow_element(self,
                                     Slice(self.compressed_data, 0, num_main_ints(self)),
                                     SliceFrom(self.compressed_data, num_main_ints(self)),
                                     index)]

\* -------------------------------------------------------- ZigZagBitPacking
\* faulty variant (mutation): the value is doubled, the sign is not folded in
zigzag_encode_Double(value) == Shl(value, 1)

\* (value << 1) ^ (value >> 31)
zigzag_encode(value) == BitXor(Shl(value, 1), Shr(value, 31))

\* faulty variant (mutation): the sign is not restored
zigzag_decode_NoSign(value) == Shr(value, 1)

\* (value >> 1) ^ (-(value & 1))
zigzag_decode(value) == BitXor(Shr(value, 1), Negate(BitAnd(value, {0})))

ZigZag_compress(self, array) ==
    IF array = <<>> THEN [self |-> self, ret |-> <<>>]
    ELSE Simple_compress(self, ListOf([k \in 1..Len(array) |-> zigzag_encode(array[k])]))

ZigZag_decompress(self, compressed_array) ==
    IF compressed_array = <<>> THEN [self |-> self, ret |-> <<>>]
    ELSE LET zigzag_decoded == Simple_decompress(self, compressed_array).ret
         IN [self |-> self,
             ret |-> ListOf([k \in 1..Len(zigzag_decoded) |->
                                zigzag_decode(zigzag_decoded[k])])]

ZigZag_get(self, index) ==
    IF index < 0 \/ index >= self.original_length
    THEN [self |-> self, error |-> "IndexError", value |-> {}]
    ELSE LET inner == Simple_get(self, index)
         IN IF inner.error # "none" THEN inner
            ELSE [self |-> self, error |-> "none", value |-> zigzag_decode(inner.value)]

\* ------------------------------------------------------- instances, calls
Classes == {"simple", "aligned", "overflow", "zigzag"}

\* faulty variant (mutation): __init__ sets original_length = 1
New_OneElement(c) ==
    CASE c = "aligned" ->
           [compressed_data |-> <<>>, original_length |-> 1, bits_per_element |-> 0,
            min_value |-> {}]
      [] c = "overflow" ->
           [compressed_data |-> <<>>, original_length |-> 1, bits_per_element |-> 0,
            overflow_data |-> <<>>, overflow_bits |-> 0, main_bits |-> 0,
            has_overflow_bit |-> FALSE, threshold_value |-> {}]
      [] OTHER ->
           [compressed_data |-> <<>>, original_length |-> 1, bits_per_element |-> 0]

\* the fields __init__ sets
New(c) ==
    CASE c = "aligned" ->
           [compressed_data |-> <<>>, original_length |-> 0, bits_per_element |-> 0,
            min_value |-> {}]
      [] c = "overflow" ->
           [compressed_data |-> <<>>, original_length |-> 0, bits_per_element |-> 0,
            overflow_data |-> <<>>, overflow_bits |-> 0, main_bits |-> 0,
            has_overflow_bit |-> FALSE, threshold_value |-> {}]
      [] OTHER ->
           [compressed_data |-> <<>>, original_length |-> 0, bits_per_element |-> 0]

compress(c, self, array) ==
    CASE c = "simple" -> Simple_compress(self, array)
      [] c = "aligned" -> Aligned_compress(self, array)
      [] c = "overflow" -> Overflow_compress(self, array)
      [] c = "zigzag" -> ZigZag_compress(self, array)

decompress(c, self, compressed_array) ==
    CASE c = "simple" -> Simple_decompress(self, compressed_array)
      [] c = "aligned" -> Aligned_decompress(self, compressed_array)
      [] c = "overflow" -> Overflow_decompress(self, compressed_array)
      [] c = "zigzag" -> ZigZag_decompress(self, compressed_array)

get(c, self, index) ==
    CASE c = "simple" -> Simple_get(self, index)
      [] c = "aligned" -> Aligned_get(self, index)
      [] c = "overflow" -> Overflow_get(self, index)
      [] c = "zigzag" -> ZigZag_get(self, index)

\* ------------------------------------------------------ the caller's inputs
\* 2^16 + 2^14 + 1: two 17-bit fields straddle the first word boundary
Big == PyInt(81921)
Vals == {PyInt(-3), Big}

List(s) == ListOf([k \in 1..Len(s) |-> PyInt(s[k])])

\* lists of small values, and lists that reach the side table, the 32-bit
\* fields and the ends of the signed 32-bit range
Extremes ==
    { <<PyInt(0)>>,
      <<PyInt(5), PyInt(1)>>,
      List(<<1, 2, 3, 4, 5>>),
      <<PyInt(0), PyInt(1), PyInt(2), Big>>,
      <<Mask(32), PyInt(0), {31}>>,
      <<{b \in 0..IntBits : b >= 31}, Mask(31), PyInt(-1), PyInt(0)>> }

Inputs == UNION {[1..k -> Vals] : k \in 0..MaxLen} \cup Extremes

Indexes == (-1)..MaxIndex

\* the data of src/tests.py (setUp, test_edge_cases, test_index_errors) and a
\* list with a repeated outlier
TestData ==
    { <<>>,
      List(<<0>>),
      List(<<1, 2, 3, 4, 5>>),
      List(<<1, 2, 3, 1024, 4, 5, 2048, 6>>),
      <<{30}>>,
      List(<<1024, 1, 2, 1024, 3, 4, 5, 2048>>) }

TestIndexes == (-1)..8

\* lists another instance returned
OtherBuffers == {compress(c, New(c), List(<<1, 2, 3>>)).ret : c \in {"aligned", "zigzag"}}

Signed32(array) ==
    \A k \in 1..Len(array) :
        ~Less(array[k], {b \in 0..IntBits : b >= 31}) /\ ~Greater(array[k], Mask(31))
Unsigned32(array) ==
    \A k \in 1..Len(array) : ~IsNeg(array[k]) /\ ~Greater(array[k], Mask(32))

\* -------------------------------------------------------------------- state
VARIABLES
    cls,         \* the class of the instance
    self,        \* the fields of the instance
    call,        \* the last call on the instance: arguments and outcome
    last_input,  \* the argument of the most recent compress
    returned,    \* the list the most recent compress returned to the caller
    matched,     \* every decompress since that compress was given that list
    pending,     \* the compress that has been called and has not returned
    objects      \* the instances create_compressor has returned, in order

vars == <<cls, self, call, last_input, returned, matched, pending, objects>>

NoCall ==
    [op |-> "new", array |-> <<>>, index |-> 0, result |-> <<>>, value |-> {},
     error |-> "none", prior_length |-> 0]

\* no compress is running
NoPending == [active |-> FALSE, array |-> <<>>, writes |-> <<>>, ret |-> <<>>,
              prior_length |-> 0]

Init ==
    /\ cls \in Classes
    /\ self = New(cls)
    /\ call = NoCall
    /\ last_input = <<>>
    /\ returned = <<>>
    /\ matched = TRUE
    /\ pending = NoPending
    /\ objects = <<>>

Compress(array) ==
    \E r \in {compress(cls, self, array)} :
        /\ self' = r.self
        /\ call' = [NoCall EXCEPT !.op = "compress", !.array = array, !.result = r.ret,
                                  !.prior_length = self.original_length]
        /\ last_input' = array
        /\ returned' = r.ret
        /\ matched' = TRUE
        /\ UNCHANGED <<cls, pending, objects>>

Decompress(compressed_array) ==
    \E r \in {decompress(cls, self, compressed_array)} :
        /\ self' = r.self
        /\ call' = [NoCall EXCEPT !.op = "decompress", !.array = compressed_array,
                                  !.result = r.ret]
        /\ matched' = (matched /\ compressed_array = returned)
        /\ UNCHANGED <<cls, last_input, returned, pending, objects>>

\* the caller passes back the list compress returned
DecompressReturned == Decompress(returned)

\* the caller passes a list another instance returned
DecompressOther == \E b \in OtherBuffers : Decompress(b)

Get(index) ==
    \E r \in {get(cls, self, index)} :
        /\ self' = r.self
        /\ call' = [NoCall EXCEPT !.op = "get", !.index = index, !.value = r.value,
                                  !.error = r.error]
        /\ UNCHANGED <<cls, last_input, returned, matched, pending, objects>>

Next ==
    \/ \E array \in Inputs : Compress(array)
    \/ DecompressReturned
    \/ DecompressOther
    \/ \E index \in Indexes : Get(index)

Spec == Init /\ [][Next]_vars

\* the same instance driven with the data of src/tests.py
NextTest ==
    \/ \E array \in TestData : Compress(array)
    \/ DecompressReturned
    \/ \E index \in TestIndexes : Get(index)

SpecTest == Init /\ [][NextTest]_vars

\* ------------------------------------------------------------ properties
Unsigned == {"simple", "aligned", "overflow"}

\* the inputs the class is specified for
InDomain(c, array) ==
    IF c \in {"simple", "overflow"} THEN Unsigned32(array) ELSE Signed32(array)

ValidIndex(index, array) == 0 <= index /\ index < Len(array)

\* C1: compress(v) and then decompress of the returned list, on the same
\* simple, aligned or overflow instance, yields v for every list v of
\* integers in 0 .. 2^32 - 1, the empty list included.
C1_RoundTrip ==
    (/\ cls \in Unsigned
     /\ call.op = "decompress"
     /\ call.array = returned
     /\ Unsigned32(last_input))
    => call.result = last_input

\* the side table was used and the list came back
C1_Witness ==
    /\ cls = "overflow"
    /\ call.op = "decompress"
    /\ call.array = returned
    /\ self.has_overflow_bit
    /\ self.overflow_data # <<>>
    /\ call.result = last_input

\* C2: after compress(v), v a non-empty list of non-negative integers, get(i)
\* returns v[i] for every index 0 <= i < len(v) on a simple, aligned or
\* overflow instance, whatever gets came before and whether or not the
\* returned list was decompressed before.
C2_PerIndex ==
    (/\ cls \in Unsigned
     /\ call.op = "get"
     /\ ValidIndex(call.index, last_input)
     /\ Unsigned32(last_input)
     /\ matched)
    => (call.error = "none" /\ call.value = last_input[call.index + 1])

\* get answered an outlier from the side table
C2_Witness ==
    /\ cls = "overflow"
    /\ call.op = "get"
    /\ ValidIndex(call.index, last_input)
    /\ self.has_overflow_bit
    /\ Greater(call.value, self.threshold_value)
    /\ call.value = last_input[call.index + 1]

\* C3: after compress([]) the returned list is empty, the element count is 0
\* and get(i) raises for every index i, whatever was compressed before.
C3_EmptyCompressZeroState ==
    (call.op = "compress" /\ call.array = <<>>)
    => (/\ call.result = <<>>
        /\ self.original_length = 0
        /\ \A i \in Indexes : get(cls, self, i).error = "IndexError")

\* C4: a call of get or decompress, with any list as argument, leaves every
\* field of the instance as it was.
C4_PureReaders == [][call'.op \in {"get", "decompress"} => self' = self]_vars

\* C5: after compress(v), v non-empty, get(i) raises IndexError exactly when
\* i < 0 or i >= len(v), on every class.
C5_Bounds ==
    (call.op = "get" /\ last_input # <<>>)
    => ((call.error = "IndexError") <=> ~ValidIndex(call.index, last_input))

\* get(len(v)) raised
C5_Witness ==
    /\ call.op = "get"
    /\ last_input # <<>>
    /\ call.index = Len(last_input)
    /\ call.error = "IndexError"

\* what get answers on the instance for index i
Answer(i) == get(cls, self, i)

\* C6: when compress(B), B non-empty, follows an earlier compress of a
\* non-empty list on the same instance, every get and the decompress of the
\* list just returned reflect B only, and the fields are those a new instance
\* has after compress(B).
C6_Overwrite ==
    (/\ call.op = "compress"
     /\ call.array # <<>>
     /\ call.prior_length > 0
     /\ InDomain(cls, call.array))
    => (/\ decompress(cls, self, returned).ret = call.array
        /\ \A i \in Indexes :
              IF ValidIndex(i, call.array)
              THEN Answer(i).error = "none" /\ Answer(i).value = call.array[i + 1]
              ELSE Answer(i).error = "IndexError"
        /\ self = compress(cls, New(cls), call.array).self)

\* a shorter list was compressed over a longer one
C6_Witness ==
    /\ call.op = "compress"
    /\ call.array # <<>>
    /\ call.prior_length > Len(call.array)
    /\ InDomain(cls, call.array)
    /\ self.original_length = Len(call.array)

\* C7: AlignedBitPacking gives back every list v of signed 32-bit integers:
\* decompress of the list compress(v) returned yields v, and get(i) returns
\* v[i] for every index 0 <= i < len(v).
C7_AlignedSigned ==
    (cls = "aligned" /\ Signed32(last_input))
    => (/\ (call.op = "decompress" /\ call.array = returned)
              => call.result = last_input
        /\ (call.op = "get" /\ ValidIndex(call.index, last_input) /\ matched)
              => (call.error = "none" /\ call.value = last_input[call.index + 1]))

\* get returned a negative element of a list that also holds a positive one
C7_Witness ==
    /\ cls = "aligned"
    /\ call.op = "get"
    /\ ValidIndex(call.index, last_input)
    /\ IsNeg(call.value)
    /\ \E k \in 1..Len(last_input) : Greater(last_input[k], {})
    /\ call.value = last_input[call.index + 1]

\* C8: ZigZagBitPacking gives back every list v of signed 32-bit integers:
\* decompress of the list compress(v) returned yields v, and get(i) returns
\* v[i] for every index 0 <= i < len(v).
C8_ZigZagSigned ==
    (cls = "zigzag" /\ Signed32(last_input))
    => (/\ (call.op = "decompress" /\ call.array = returned)
              => call.result = last_input
        /\ (call.op = "get" /\ ValidIndex(call.index, last_input))
              => (call.error = "none" /\ call.value = last_input[call.index + 1]))

\* the list with both ends of the signed range came back
C8_Witness ==
    /\ cls = "zigzag"
    /\ call.op = "decompress"
    /\ call.array = returned
    /\ \E k \in 1..Len(last_input) : last_input[k] = {b \in 0..IntBits : b >= 31}
    /\ \E k \in 1..Len(last_input) : last_input[k] = Mask(31)
    /\ call.result = last_input

\* the list of src/tests.py with the outliers 1024 and 2048
Outliers == List(<<1, 2, 3, 1024, 4, 5, 2048, 6>>)

\* C9 as stated: SimpleBitPacking.compress(Outliers) sets bits_per_element to 11
C9_Width11 ==
    (cls = "simple" /\ call.op = "compress" /\ call.array = Outliers)
    => self.bits_per_element = 11

\* C9 amended: SimpleBitPacking.compress(Outliers) sets bits_per_element to 12,
\* the bit length of 2048, and returns 3 words
C9_Width12 ==
    (cls = "simple" /\ call.op = "compress" /\ call.array = Outliers)
    => (self.bits_per_element = 12 /\ Len(returned) = 3)

C9_Witness == cls = "simple" /\ call.op = "compress" /\ call.array = Outliers

\* C10 as stated: OverflowBitPacking.compress(Outliers) uses no flag bit, keeps
\* an empty overflow table and returns the list SimpleBitPacking returns
C10_SideTableOff ==
    (cls = "overflow" /\ call.op = "compress" /\ call.array = Outliers)
    => (/\ ~self.has_overflow_bit
        /\ self.overflow_data = <<>>
        /\ returned = compress("simple", New("simple"), Outliers).ret)

\* C10 amended: 1024 and 2048 are 2 of the 8 distinct values (25%), so
\* OverflowBitPacking.compress(Outliers) uses the flag bit with 7 main bits,
\* keeps the overflow table [1024, 2048] and returns 2 main words followed by
\* 1024 and 2048, not the list SimpleBitPacking returns
C10_SideTableOn ==
    (cls = "overflow" /\ call.op = "compress" /\ call.array = Outliers)
    => (/\ self.has_overflow_bit
        /\ self.main_bits = 7
        /\ self.overflow_data = List(<<1024, 2048>>)
        /\ Len(returned) = 4
        /\ SliceFrom(returned, 2) = List(<<1024, 2048>>)
        /\ returned # compress("simple", New("simple"), Outliers).ret)

C10_Witness ==
    /\ cls = "overflow"
    /\ call.op = "compress"
    /\ call.array = Outliers
    /\ Cardinality(Range(call.array)) = 8

\* ------------------------------------------------ _calculate_bits_needed
\* values whose bit lengths are 0, 1, 2, 3, 17, 32, and a negative one
WidthVals == {PyInt(0), PyInt(1), PyInt(2), PyInt(5), Mask(32)} \cup Vals

WidthInputs == UNION {[1..k -> WidthVals] : k \in 0..MaxLen} \cup Extremes

\* a caller asks the instance for the width of array
CalculateBitsNeeded(array) ==
    /\ call' = [op |-> "_calculate_bits_needed", array |-> array,
                bits |-> calculate_bits_needed(array)]
    /\ UNCHANGED <<cls, self, last_input, returned, matched, pending, objects>>

NextWidth == \E array \in WidthInputs : CalculateBitsNeeded(array)

SpecWidth == Init /\ [][NextWidth]_vars

\* C11: for a list of non-negative integers _calculate_bits_needed returns 0
\* when the list is empty, 1 when its maximum is 0, and otherwise the least w
\* such that every element is below 2^w (some element has bit w-1 set).
C11_MinimalWidth ==
    (/\ call.op = "_calculate_bits_needed"
     /\ \A k \in 1..Len(call.array) : ~IsNeg(call.array[k]))
    => IF call.array = <<>> THEN call.bits = 0
       ELSE IF \A k \in 1..Len(call.array) : call.array[k] = {} THEN call.bits = 1
       ELSE /\ \A k \in 1..Len(call.array) : call.array[k] \subseteq 0..(call.bits - 1)
            /\ \E k \in 1..Len(call.array) : (call.bits - 1) \in call.array[k]

\* a list whose maximum 2^32 - 1 needs all 32 bits, next to a zero
C11_Witness ==
    /\ call.op = "_calculate_bits_needed"
    /\ \E k \in 1..Len(call.array) : call.array[k] = Mask(32)
    /\ \E k \in 1..Len(call.array) : call.array[k] = {}
    /\ \A k \in 1..Len(call.array) : ~IsNeg(call.array[k])
    /\ call.bits = 32

\* ------------------------------------- the strategies on the same sequence
\* n copies of v; the n values (first + k * step) % modulus, k = 1 .. n
Repeat(v, n) == [k \in 1..n |-> v]
Cycle(n, first, step, modulus) ==
    ListOf([k \in 1..n |-> PyInt((first + k * step) % modulus)])

\* sequences of integers in 0 .. 2^32 - 1: the short ones, 22 three-bit
\* values with and without the value 0, repeated wide values, and eight
\* four-bit values of which one is an outlier
CompareInputs ==
    {array \in WidthInputs \cup TestData : Unsigned32(array)}
    \cup { Cycle(22, 0, 3, 8),
           ListOf([k \in 1..22 |-> PyInt(4 + (k % 2))]),
           Repeat({30}, 3),
           Repeat(Big, 4),
           List(<<0, 1, 2, 3, 8, 0, 1, 2>>) }

\* a caller compresses array with a new instance of each strategy
\* (test_simple_vs_aligned, test_overflow_efficiency, test_compression_ratios)
Compare(array) ==
    /\ call' = [op |-> "compare", array |-> array,
                simple |-> compress("simple", New("simple"), array),
                aligned |-> compress("aligned", New("aligned"), array),
                overflow |-> compress("overflow", New("overflow"), array)]
    /\ UNCHANGED <<cls, self, last_input, returned, matched, pending, objects>>

NextCompare == \E array \in CompareInputs : Compare(array)

SpecCompare == Init /\ [][NextCompare]_vars

C13_OverflowBenefit ==
    (call.op = "compare" /\ call.overflow.self.has_overflow_bit)
    => /\ call.overflow.self.main_bits + 1 <= call.simple.self.bits_per_element
       /\ Len(call.overflow.ret) - Len(call.overflow.self.overflow_data)
              <= Len(call.simple.ret)

\* eight four-bit values with the outlier 8: fields of 3 + 1 bits, one main
\* word, as many as the simple packing
C13_Witness ==
    /\ call.op = "compare"
    /\ call.overflow.self.has_overflow_bit
    /\ call.overflow.self.main_bits = 3
    /\ call.simple.self.bits_per_element = 4
    /\ call.overflow.self.overflow_data = <<PyInt(8)>>
    /\ Len(call.overflow.ret) = 2
    /\ Len(call.simple.ret) = 1

\* ------------------------------------------------ test_compression_ratios
\* range(1000) and randint(0, 100) of test_compression_ratios
TestLength == 1000
TestMax == 100

\* sequences of TestLength integers in 0 .. TestMax: periodic ones over 1, 2,
\* 8, .. TestMax + 1 values, constant ones, and small values with the outlier
\* TestMax at every 20th, 50th or 1000th place
RatioInputs ==
    {Cycle(TestLength, first, step, modulus) :
        first \in {0, 1}, step \in {1, 37},
        modulus \in {2, 8, 16, 17, 22, 64, 65, TestMax + 1}}
    \cup {Repeat(PyInt(v), TestLength) : v \in {0, 1, 64, TestMax}}
    \cup {ListOf([k \in 1..TestLength |->
                    PyInt(IF k % period = 0 THEN TestMax ELSE k % 16)]) :
            period \in {20, 50, 1000}}

\* the test compresses its data once with a new instance of each strategy
NextRatios == \E array \in RatioInputs : call.op = "new" /\ Compare(array)

SpecRatios == Init /\ [][NextRatios]_vars

\* C14: for a sequence of 1000 integers in 0 .. 100, SimpleBitPacking,
\* AlignedBitPacking (offset word included) and OverflowBitPacking (overflow
\* values included) each return fewer than 1000 words.
C14_FewerWords ==
    (/\ call.op = "compare"
     /\ Len(call.array) = TestLength
     /\ \A k \in 1..Len(call.array) :
            ~IsNeg(call.array[k]) /\ ~Greater(call.array[k], PyInt(TestMax)))
    => /\ Len(call.simple.ret) < TestLength
       /\ Len(call.aligned.ret) < TestLength
       /\ Len(call.overflow.ret) < TestLength

\* 1000 values that reach 100, with the side table in use and its words counted
C14_Witness ==
    /\ call.op = "compare"
    /\ Len(call.array) = TestLength
    /\ \E k \in 1..Len(call.array) : call.array[k] = PyInt(TestMax)
    /\ call.overflow.self.has_overflow_bit
    /\ call.overflow.self.overflow_data = <<PyInt(TestMax)>>
    /\ Len(call.overflow.ret) = 158
    /\ Len(call.simple.ret) = 219
    /\ Len(call.aligned.ret) = 251

\* ------------------------------------------------ _write_bits, _read_bits
\* _write_bits and _read_bits of the classes that define or inherit them
\* (AlignedBitPacking packs with shifts of its own)
BitPackers == {"simple", "overflow", "zigzag"}

\* the call raises IndexError at array[int_index]
write_raises(c, array, start_bit, num_bits) ==
    c # "overflow" /\ Simple_write_raises(array, start_bit, num_bits)

write_bits(c, array, start_bit, num_bits, value) ==
    IF c = "overflow" THEN Overflow_write_bits(array, start_bit, num_bits, value)
    ELSE Simple_write_bits(array, start_bit, num_bits, value)

read_bits(c, array, start_bit, num_bits) ==
    IF c = "overflow" THEN Overflow_read_bits(array, start_bit, num_bits)
    ELSE Simple_read_bits(array, start_bit, num_bits)

\* word arrays of 0, 1 and 2 words, start bits inside, at the end of and
\* beyond them, the widths 0, 1, 3, 17 and 32, values of 3, 17 and 32 bits
BitWords == {<<>>, <<{}>>, <<{0, 31}>>, <<{}, {}>>, <<{1}, {30}>>}
StartBits == {0, 5, 30, 32, 40, 62, 64, 70}
Widths == {0, 1, 3, 17, 32}
BitValues == {PyInt(5), Big, Mask(32)}

\* array is a list the caller keeps: after is the list after the call, left
\* as it was when the call raises
WriteBits(array, start_bit, num_bits, value) ==
    /\ cls \in BitPackers
    /\ call' = [op |-> "_write_bits", array |-> array, start_bit |-> start_bit,
                num_bits |-> num_bits, value |-> value,
                raised |-> write_raises(cls, array, start_bit, num_bits),
                after |-> IF write_raises(cls, array, start_bit, num_bits) THEN array
                          ELSE write_bits(cls, array, start_bit, num_bits, value)]
    /\ UNCHANGED <<cls, self, last_input, returned, matched, pending, objects>>

ReadBits(array, start_bit, num_bits) ==
    /\ cls \in BitPackers
    /\ call' = [op |-> "_read_bits", array |-> array, start_bit |-> start_bit,
                num_bits |-> num_bits,
                value |-> read_bits(cls, array, start_bit, num_bits)]
    /\ UNCHANGED <<cls, self, last_input, returned, matched, pending, objects>>

\* the caller reads the field it has just written
ReadBack ==
    /\ cls \in BitPackers
    /\ call.op = "_write_bits"
    /\ ~call.raised
    /\ call' = [op |-> "_write_bits, _read_bits", array |-> call.array,
                start_bit |-> call.start_bit, num_bits |-> call.num_bits,
                value |-> call.value, after |-> call.after,
                read |-> read_bits(cls, call.after, call.start_bit, call.num_bits)]
    /\ UNCHANGED <<cls, self, last_input, returned, matched, pending, objects>>

NextBits ==
    \/ \E array \in BitWords, start_bit \in StartBits, num_bits \in Widths,
          value \in BitValues : WriteBits(array, start_bit, num_bits, value)
    \/ \E array \in BitWords, start_bit \in StartBits, num_bits \in Widths :
          ReadBits(array, start_bit, num_bits)
    \/ ReadBack

SpecBits == Init /\ [][NextBits]_vars

\* the bits of the field (the low num_bits bits of value, placed at start_bit)
\* that fall in word j, counted from 0
FieldInWord(start_bit, num_bits, value, j) ==
    {start_bit + b - 32 * j :
        b \in {x \in value : x < num_bits /\ start_bit + x \in (32 * j)..(32 * j + 31)}}

\* C15: _write_bits never raises and never changes the length of the array;
\* each word of the array gets the bits of the field that fall in it and is
\* otherwise unchanged, so the part of the field at or beyond the end of the
\* array is dropped (the whole field when start_bit >= 32 * len(array)).
C15_WritePastEndNoOp ==
    call.op = "_write_bits"
    => /\ ~call.raised
       /\ Len(call.after) = Len(call.array)
       /\ \A j \in 1..Len(call.array) :
              call.after[j] = call.array[j]
                  \cup FieldInWord(call.start_bit, call.num_bits, call.value, j - 1)

\* C16: _read_bits returns 0 when start_bit >= 32 * len(array); when the field
\* starts in the last word and runs past its end, it returns the bits of that
\* word from the start bit up, and nothing above them.
C16_ReadPastEnd ==
    call.op = "_read_bits" /\ call.num_bits > 0
    => LET words == Len(call.array)
           bit_offset == call.start_bit % 32
       IN /\ call.start_bit >= 32 * words => call.value = {}
          /\ (call.start_bit \div 32 = words - 1 /\ bit_offset + call.num_bits > 32)
             => call.value = {b \in 0..(31 - bit_offset) :
                                 bit_offset + b \in call.array[words]}

\* a field of 17 bits at bit 62 of two words: only bit 62 is set in it
C16_Witness ==
    /\ call.op = "_read_bits"
    /\ call.array = <<{1}, {30}>>
    /\ call.start_bit = 62
    /\ call.num_bits = 17
    /\ call.value = {0}

\* C17: every word of the list compress returns for an input of the class's
\* domain lies in 0 .. 2^32 - 1.
C17_WordsUnsigned32 ==
    (call.op = "compress" /\ InDomain(cls, call.array)) => Unsigned32(call.result)

HasNegative(array) == \E k \in 1..Len(array) : IsNeg(array[k])

\* C18: a compress of the simple or the overflow class whose argument holds a
\* negative integer ends with an error and leaves the fields of the instance
\* as they were.
C18_NegativeRejected ==
    [][(call'.op = "compress" /\ cls \in {"simple", "overflow"} /\ HasNegative(call'.array))
       => (call'.error # "none" /\ self' = self)]_vars

\* ------------------------------------------- one instance, two callers
\* the assignment self.<field> = <the value the field has when compress returns>
Assign(field, done) == [field |-> field, value |-> done[field]]

\* self.overflow_data = [] and the appends of the encoding loop
OverflowDataWrites(overflow_data) ==
    [k \in 1..(Len(overflow_data) + 1) |->
        [field |-> "overflow_data", value |-> SubSeq(overflow_data, 1, k - 1)]]

\* faulty variant (mutation): compress returns without assigning self.compressed_data
Writes_NoBuffer(c, array, done) ==
    IF array = <<>> THEN <<>>
    ELSE CASE c \in {"simple", "zigzag"} ->
                <<Assign("original_length", done), Assign("bits_per_element", done)>>
           [] c = "aligned" ->
                <<Assign("original_length", done), Assign("min_value", done),
                  Assign("bits_per_element", done)>>
           [] c = "overflow" ->
                <<Assign("original_length", done), Assign("threshold_value", done),
                  Assign("has_overflow_bit", done), Assign("main_bits", done),
                  Assign("overflow_bits", done)>>

\* the assignments to the fields of the instance that compress(array) makes,
\* in program order; done is the instance when the call returns
Writes(c, array, done) ==
    IF array = <<>> THEN <<>>
    ELSE CASE c \in {"simple", "zigzag"} ->
                <<Assign("original_length", done), Assign("bits_per_element", done),
                  Assign("compressed_data", done)>>
           [] c = "aligned" ->
                <<Assign("original_length", done), Assign("min_value", done),
                  Assign("bits_per_element", done), Assign("compressed_data", done)>>
           [] c = "overflow" ->
                <<Assign("original_length", done)>>
                \o (IF Cardinality(Range(array)) <= 1
                    THEN <<Assign("has_overflow_bit", done), Assign("main_bits", done),
                           Assign("overflow_bits", done), Assign("threshold_value", done)>>
                    ELSE <<Assign("threshold_value", done), Assign("has_overflow_bit", done),
                           Assign("main_bits", done), Assign("overflow_bits", done)>>)
                \o OverflowDataWrites(done.overflow_data)
                \o <<Assign("compressed_data", done)>>

\* lists every class is specified for, of 1 to 5 elements and 1 to 17 bits
SharedInputs ==
    { <<>>,
      <<PyInt(5), PyInt(1)>>,
      List(<<1, 2, 3, 4, 5>>),
      <<PyInt(0), PyInt(1), PyInt(2), Big>> }

\* a caller calls compress(array): nothing is assigned yet
CompressBegin(array) ==
    /\ ~pending.active
    /\ \E r \in {compress(cls, self, array)} :
           pending' = [active |-> TRUE, array |-> array,
                       writes |-> Writes(cls, array, r.self), ret |-> r.ret,
                       prior_length |-> self.original_length]
    /\ UNCHANGED <<cls, self, call, last_input, returned, matched, objects>>

\* the running compress makes its next assignment
CompressAssign ==
    /\ pending.active
    /\ pending.writes # <<>>
    /\ self' = [self EXCEPT ![Head(pending.writes).field] = Head(pending.writes).value]
    /\ pending' = [pending EXCEPT !.writes = Tail(@)]
    /\ UNCHANGED <<cls, call, last_input, returned, matched, objects>>

\* the running compress returns its list
CompressReturn ==
    /\ pending.active
    /\ pending.writes = <<>>
    /\ call' = [NoCall EXCEPT !.op = "compress", !.array = pending.array,
                              !.result = pending.ret,
                              !.prior_length = pending.prior_length]
    /\ last_input' = pending.array
    /\ returned' = pending.ret
    /\ matched' = TRUE
    /\ pending' = NoPending
    /\ UNCHANGED <<cls, self, objects>>

\* compress on one caller's thread, get on another's: a get runs before,
\* between or after the assignments of a compress
NextShared ==
    \/ \E array \in SharedInputs : CompressBegin(array)
    \/ CompressAssign
    \/ CompressReturn
    \/ \E index \in Indexes : Get(index)

SpecShared == Init /\ [][NextShared]_vars

\* C19: a get that runs while no compress is running on the instance answers
\* with the element of the list of the last compress that returned; a value
\* that is neither that element nor the element of the list being compressed
\* comes only from a get that ran between the assignments of a compress
\* (C19_Witness is such a get).
C19_SequentialGet ==
    (call.op = "get" /\ ~pending.active /\ ValidIndex(call.index, last_input))
    => (call.error = "none" /\ call.value = last_input[call.index + 1])

\* compress(B) is running on a SimpleBitPacking that holds compress(A), and
\* get(i), for i valid in A and in B, returned neither A[i] nor B[i]
C19_Witness ==
    /\ cls = "simple"
    /\ call.op = "get"
    /\ pending.active
    /\ last_input # <<>>
    /\ ValidIndex(call.index, last_input)
    /\ ValidIndex(call.index, pending.array)
    /\ call.error = "none"
    /\ call.value # last_input[call.index + 1]
    /\ call.value # pending.array[call.index + 1]

\* ------------------------------------------------------------- factory.py
\* a str is the sequence of its characters
UpperCase == <<"A", "B", "C", "D", "E", "F", "G", "H", "I", "J", "K", "L", "M",
               "N", "O", "P", "Q", "R", "S", "T", "U", "V", "W", "X", "Y", "Z">>
LowerCase == <<"a", "b", "c", "d", "e", "f", "g", "h", "i", "j", "k", "l", "m",
               "n", "o", "p", "q", "r", "s", "t", "u", "v", "w", "x", "y", "z">>

\* str.lower(): an upper-case letter becomes its lower-case letter, any other
\* character stays
char_lower(ch) ==
    IF \E k \in 1..Len(UpperCase) : UpperCase[k] = ch
    THEN LowerCase[CHOOSE k \in 1..Len(UpperCase) : UpperCase[k] = ch]
    ELSE ch

str_lower(s) == [k \in 1..Len(s) |-> char_lower(s[k])]

\* the members of the enumeration and their values
CompressionType ==
    [SIMPLE |-> <<"s", "i", "m", "p", "l", "e">>,
     ALIGNED |-> <<"a", "l", "i", "g", "n", "e", "d">>,
     OVERFLOW |-> <<"o", "v", "e", "r", "f", "l", "o", "w">>]

\* CompressionType(value): the member with that value, or ValueError
CompressionType_of(value) ==
    IF \E m \in DOMAIN CompressionType : CompressionType[m] = value
    THEN CHOOSE m \in DOMAIN CompressionType : CompressionType[m] = value
    ELSE "ValueError"

\* SimpleBitPacking(), AlignedBitPacking(), OverflowBitPacking(): a new object
\* on the heap, after the objects that are there
Construct(c, heap) ==
    [error |-> "none", objects |-> Append(heap, [cls |-> c, self |-> New(c)]),
     result |-> Len(heap) + 1]

Raise(error, heap) == [error |-> error, objects |-> heap, result |-> 0]

\* faulty variant (mutation): one instance per class is kept and returned again
create_compressor_Cached(compression_type, heap) ==
    LET member == IF compression_type.kind = "str"
                  THEN CompressionType_of(str_lower(compression_type.chars))
                  ELSE compression_type.member
        c == CASE member = "SIMPLE" -> "simple"
               [] member = "ALIGNED" -> "aligned"
               [] member = "OVERFLOW" -> "overflow"
               [] OTHER -> "none"
    IN IF c = "none" THEN Raise("ValueError", heap)
       ELSE IF \E id \in 1..Len(heap) : heap[id].cls = c
       THEN [error |-> "none", objects |-> heap,
             result |-> CHOOSE id \in 1..Len(heap) : heap[id].cls = c]
       ELSE Construct(c, heap)

\* create_compressor: the error, the heap after the call and the object returned
create_compressor(compression_type, heap) ==
    LET member == IF compression_type.kind = "str"
                  THEN CompressionType_of(str_lower(compression_type.chars))
                  ELSE compression_type.member
    IN IF member = "ValueError" THEN Raise("ValueError", heap)
       ELSE IF member = "SIMPLE" THEN Construct("simple", heap)
       ELSE IF member = "ALIGNED" THEN Construct("aligned", heap)
       ELSE IF member = "OVERFLOW" THEN Construct("overflow", heap)
       ELSE Raise("ValueError", heap)

Str(chars) == [kind |-> "str", chars |-> chars]

\* the three names in lower case, in upper case and in mixed case, the
\* members of the enumeration, and strings that are not a name
Selectors ==
    { Str(<<"s", "i", "m", "p", "l", "e">>),
      Str(<<"S", "I", "M", "P", "L", "E">>),
      Str(<<"S", "i", "m", "p", "l", "e">>),
      Str(<<"a", "l", "i", "g", "n", "e", "d">>),
      Str(<<"A", "L", "I", "G", "N", "E", "D">>),
      Str(<<"a", "L", "i", "G", "n", "E", "d">>),
      Str(<<"o", "v", "e", "r", "f", "l", "o", "w">>),
      Str(<<"O", "V", "E", "R", "F", "L", "O", "W">>),
      Str(<<"O", "v", "e", "r", "F", "l", "o", "w">>),
      Str(<<>>),
      Str(<<"z", "i", "g", "z", "a", "g">>),
      Str(<<"s", "i", "m", "p", "l">>),
      Str(<<"s", "i", "m", "p", "l", "e", " ">>),
      Str(<<"S", "I", "M", "P", "L", "E", "_">>),
      Str(<<"a", "l", "l", "i", "g", "n", "e", "d">>),
      Str(<<"o", "v", "e", "r", "f", "1", "o", "w">>) }
    \cup {[kind |-> "enum", member |-> m] : m \in DOMAIN CompressionType}

\* the callers hold at most MaxObjects compressors
MaxObjects == 2

CreateCompressor(compression_type) ==
    /\ Len(objects) < MaxObjects
    /\ \E r \in {create_compressor(compression_type, objects)} :
           /\ objects' = r.objects
           /\ call' = [op |-> "create_compressor", selector |-> compression_type,
                       error |-> r.error, result |-> r.result,
                       prior_objects |-> Len(objects)]
    /\ UNCHANGED <<cls, self, last_input, returned, matched, pending>>

\* a caller compresses a list with the compressor it was given
ObjectCompress(id, array) ==
    /\ id \in 1..Len(objects)
    /\ objects' = [objects EXCEPT
                      ![id].self = compress(objects[id].cls, objects[id].self, array).self]
    /\ call' = [op |-> "object.compress", id |-> id, array |-> array]
    /\ UNCHANGED <<cls, self, last_input, returned, matched, pending>>

NextFactory ==
    \/ \E compression_type \in Selectors : CreateCompressor(compression_type)
    \/ \E id \in 1..MaxObjects, array \in {List(<<1, 2, 3, 4, 5>>), <<Big>>} :
          ObjectCompress(id, array)

SpecFactory == Init /\ [][NextFactory]_vars

\* s is name with each letter in either case
CaseVariant(s, name) ==
    /\ Len(s) = Len(name)
    /\ \A k \in 1..Len(s) :
           \/ s[k] = name[k]
           \/ \E j \in 1..Len(LowerCase) : LowerCase[j] = name[k] /\ UpperCase[j] = s[k]

\* the class a selector names, "none" when it names no class
Named(selector) ==
    IF selector.kind = "enum"
    THEN CASE selector.member = "SIMPLE" -> "simple"
           [] selector.member = "ALIGNED" -> "aligned"
           [] selector.member = "OVERFLOW" -> "overflow"
    ELSE IF CaseVariant(selector.chars, <<"s", "i", "m", "p", "l", "e">>) THEN "simple"
    ELSE IF CaseVariant(selector.chars, <<"a", "l", "i", "g", "n", "e", "d">>) THEN "aligned"
    ELSE IF CaseVariant(selector.chars, <<"o", "v", "e", "r", "f", "l", "o", "w">>)
    THEN "overflow"
    ELSE "none"

\* C20: create_compressor, given 'simple', 'aligned' or 'overflow' in any
\* letter case or the member of the enumeration, returns an object that was
\* not on the heap before the call, of the class named, with no elements, no
\* width and no buffer; given any other string it raises ValueError and
\* constructs nothing.
C20_Registry ==
    call.op = "create_compressor"
    => IF Named(call.selector) # "none"
       THEN /\ call.error = "none"
            /\ call.result \in 1..Len(objects)
            /\ call.result > call.prior_objects
            /\ objects[call.result].cls = Named(call.selector)
            /\ objects[call.result].self.original_length = 0
            /\ objects[call.result].self.bits_per_element = 0
            /\ objects[call.result].self.compressed_data = <<>>
       ELSE /\ call.error = "ValueError"
            /\ Len(objects) = call.prior_objects

\* 'OVERFLOW' is asked for while an OverflowBitPacking that holds a list is
\* on the heap: the second object is returned
C20_Witness ==
    /\ call.op = "create_compressor"
    /\ call.selector = Str(<<"O", "V", "E", "R", "F", "L", "O", "W">>)
    /\ call.prior_objects = 1
    /\ objects[1].cls = "overflow"
    /\ objects[1].self.original_length = 5
    /\ call.result = 2
    /\ call.error = "none"

\* ------------------------------------------- OverflowBitPacking, side table
\* lists of integers in 0 .. 2^32 - 1 around the decision of
\* _analyze_overflow_strategy: 3 outliers among 11 and among 10 distinct
\* values, 2 among 8 (once with an outlier repeated), 1 among 4 and among 2,
\* 8 among 9, no outlier, one distinct value, 32-bit values
OverflowInputs ==
    { <<>>,
      List(<<0, 1, 2, 3, 4, 5, 6, 7, 8, 16, 31>>),
      List(<<0, 1, 2, 3, 4, 5, 6, 8, 16, 31>>),
      List(<<1, 2, 3, 1024, 4, 5, 2048, 6>>),
      List(<<1024, 1, 2, 1024, 3, 4, 5, 2048>>),
      List(<<2048, 1024, 2048, 1, 2, 3, 4, 5, 2048, 1024>>),
      <<PyInt(0), PyInt(1), PyInt(2), Big>>,
      <<PyInt(0), Big>>,
      List(<<0, 9, 10, 11, 12, 13, 14, 15, 16>>),
      List(<<1, 2, 3, 4, 5>>),
      <<Big, Big>>,
      <<Mask(32), PyInt(0), {31}>>,
      <<PyInt(1), PyInt(2), PyInt(3), PyInt(4), Mask(32), PyInt(5), Mask(32)>> }

\* the caller passes the list compress returned without its last n words
DecompressTruncated(n) ==
    /\ Len(returned) >= n
    /\ Decompress(Slice(returned, 0, Len(returned) - n))

\* the caller deletes the last word of the list compress returned: that
\* list is the object compress stored in self.compressed_data
DeleteLastWord ==
    /\ returned # <<>>
    /\ returned = self.compressed_data
    /\ returned' = Slice(returned, 0, Len(returned) - 1)
    /\ self' = [self EXCEPT !.compressed_data = Slice(returned, 0, Len(returned) - 1)]
    /\ call' = [NoCall EXCEPT !.op = "del", !.array = returned]
    /\ matched' = FALSE
    /\ UNCHANGED <<cls, last_input, pending, objects>>

\* one OverflowBitPacking driven with these lists
NextOverflow ==
    /\ cls = "overflow"
    /\ \/ \E array \in OverflowInputs : Compress(array)
       \/ DecompressReturned
       \/ \E n \in 1..2 : DecompressTruncated(n)
       \/ DeleteLastWord
       \/ \E index \in TestIndexes : Get(index)

SpecOverflow == Init /\ [][NextOverflow]_vars

\* the field of element index in the main words of the list compress returned
ReturnedField(index) ==
    Overflow_read_bits(Slice(returned, 0, num_main_ints(self)),
                       index * total_bits_per_element(self),
                       total_bits_per_element(self))

\* C21: after a compress that uses the side table, overflow_bits <= main_bits,
\* the table has at most 2^main_bits entries, and the field of every element
\* above the threshold is the flag bit main_bits over an index of the table,
\* the index of that element's value.
C21_IndexFits ==
    (cls = "overflow" /\ call.op = "compress" /\ call.array # <<>> /\ self.has_overflow_bit)
    => /\ self.overflow_bits <= self.main_bits
       /\ Len(self.overflow_data) <= 2 ^ self.main_bits
       /\ \A k \in 1..Len(call.array) :
              Greater(call.array[k], Mask(self.main_bits))
              => /\ self.main_bits \in ReturnedField(k - 1)
                 /\ ReturnedField(k - 1) \subseteq 0..self.main_bits
                 /\ ToNat(ReturnedField(k - 1) \ {self.main_bits}) < Len(self.overflow_data)
                 /\ self.overflow_data[ToNat(ReturnedField(k - 1) \ {self.main_bits}) + 1]
                        = call.array[k]

\* three outliers among eleven distinct values at main_bits = 3: the indexes
\* 0, 1, 2 take overflow_bits = 2 bits
C21_Witness ==
    /\ cls = "overflow"
    /\ call.op = "compress"
    /\ call.array = List(<<0, 1, 2, 3, 4, 5, 6, 7, 8, 16, 31>>)
    /\ self.has_overflow_bit
    /\ self.main_bits = 3
    /\ self.overflow_bits = 2
    /\ self.overflow_data = List(<<8, 16, 31>>)
    /\ ReturnedField(10) = {3, 1}

\* the bit length of the largest element, stated by its bits
WidthOfMax(array) ==
    CHOOSE w \in 0..IntBits :
        /\ \A k \in 1..Len(array) : array[k] \subseteq 0..(w - 1)
        /\ w > 0 => \E k \in 1..Len(array) : (w - 1) \in array[k]

\* max(3, floor(0.6 * max_bits)): the largest t with 10 * t <= 6 * max_bits, and 3 if that is less
ThresholdOf(max_bits) ==
    CHOOSE t \in 3..(IntBits + 3) :
        /\ t = 3 \/ 10 * t <= 6 * max_bits
        /\ 10 * (t + 1) > 6 * max_bits

\* the distinct values above 2^t - 1: those with a bit at t or higher
OutliersAbove(array, t) == {v \in Range(array) : \E b \in v : b >= t}

FirstOutliers(array) ==
    {k \in 1..Len(array) :
        /\ self.has_overflow_bit
        /\ \E b \in array[k] : b >= self.main_bits
        /\ \A j \in 1..(k - 1) : array[j] # array[k]}

\* the index in the table of the value first seen at position k
TableIndex(array, k) == Cardinality({j \in FirstOutliers(array) : j < k})

\* C23: after a compress of a non-empty list of integers in 0 .. 2^32 - 1, the
\* table holds the distinct values above the threshold once each in order of
\* first occurrence, every occurrence of such a value is encoded as the flag
\* bit over the index of its first occurrence, and the returned list is
\* ceil(len(v) * field width / 32) main words followed by the table.
C23_TableLayout ==
    (cls = "overflow" /\ call.op = "compress" /\ call.array # <<>> /\ Unsigned32(call.array))
    => LET array == call.array
           main_words == (Len(array) * total_bits_per_element(self) + 31) \div 32
       IN /\ Len(self.overflow_data) = Cardinality(FirstOutliers(array))
          /\ \A k \in FirstOutliers(array) :
                 /\ self.overflow_data[TableIndex(array, k) + 1] = array[k]
                 /\ \A j \in k..Len(array) :
                        array[j] = array[k]
                        => ReturnedField(j - 1)
                               = {self.main_bits} \cup PyInt(TableIndex(array, k))
          /\ Len(returned) = main_words + Len(self.overflow_data)
          /\ \A i \in 1..Len(self.overflow_data) :
                 returned[main_words + i] = self.overflow_data[i]

\* 2048 first, 1024 second, each occurring again: the table is [2048, 1024]
\* after 3 main words, the last element refers to index 1
C23_Witness ==
    /\ cls = "overflow"
    /\ call.op = "compress"
    /\ call.array = List(<<2048, 1024, 2048, 1, 2, 3, 4, 5, 2048, 1024>>)
    /\ self.overflow_data = List(<<2048, 1024>>)
    /\ Len(returned) = 5
    /\ returned[4] = PyInt(2048)
    /\ returned[5] = PyInt(1024)
    /\ ReturnedField(8) = {7}
    /\ ReturnedField(9) = {7, 0}

\* ---------------------------------------------------------------- layouts
\* lists that fill whole words, leave padding bits, straddle words and hold
\* negative values: 22 three-bit values, 33 one-bit values, 7 five-bit values,
\* 8 values of range 12 from -7, the 12-bit list of src/tests.py, 17-bit and
\* 32-bit ranges
LayoutInputs ==
    { <<>>,
      Cycle(22, 0, 3, 8),
      Cycle(33, 0, 1, 2),
      List(<<0, 31, 17, 5, 9, 30, 1>>),
      List(<<-7, 5, 0, -1, 3, 2, -7, 4>>),
      List(<<1, 2, 3, 1024, 4, 5, 2048, 6>>),
      List(<<7, 7, 7>>),
      <<PyInt(-3), Big, PyInt(0)>>,
      <<Big, PyInt(1), Big, PyInt(2), Big>>,
      <<Mask(32), PyInt(0), {31}>>,
      <<{b \in 0..IntBits : b >= 31}, Mask(31), PyInt(-1), PyInt(0)>> }

NextLayout ==
    \/ \E array \in LayoutInputs : Compress(array)
    \/ \E index \in TestIndexes : Get(index)

SpecLayout == Init /\ [][NextLayout]_vars

\* the value v placed with its bit 0 at bit offset
PlacedAt(v, offset) == {b + offset : b \in v}

\* C24: after AlignedBitPacking.compress of a non-empty list of signed 32-bit
\* integers, the returned list is the minimum of the list followed by
\* ceil(len / elements_per_word) data words, elements_per_word = 32 div
\* bits_per_element; data word w is made of the elements
\* w * elements_per_word .. (w + 1) * elements_per_word - 1, element i (minus
\* the minimum) at the bits (i mod elements_per_word) * bits_per_element and
\* up, bits_per_element of them, all below bit 32.
C24_AlignedLayout ==
    (cls = "aligned" /\ call.op = "compress" /\ call.array # <<>> /\ Signed32(call.array))
    => LET array == call.array
           bits == self.bits_per_element
           per_word == 32 \div bits
           words == (Len(array) + per_word - 1) \div per_word
           minimum == returned[1]
       IN /\ bits \in 1..32
          /\ minimum \in Range(array)
          /\ \A k \in 1..Len(array) : ~Less(array[k], minimum)
          /\ Len(returned) = 1 + words
          /\ \A i \in 0..(Len(array) - 1) :
                 /\ (i % per_word) * bits + bits <= 32
                 /\ Sub(array[i + 1], minimum) \subseteq 0..(bits - 1)
          /\ \A w \in 0..(words - 1) :
                 returned[w + 2] =
                     UNION {PlacedAt(Sub(array[i + 1], minimum), (i % per_word) * bits) :
                            i \in {j \in 0..(Len(array) - 1) : j \div per_word = w}}

\* 7 values of 5 bits: 6 in the first data word, bits 30 and 31 left empty,
\* the 7th at bit 0 of the second
C24_Witness ==
    /\ cls = "aligned"
    /\ call.op = "compress"
    /\ call.array = List(<<0, 31, 17, 5, 9, 30, 1>>)
    /\ self.bits_per_element = 5
    /\ Len(returned) = 3
    /\ returned[1] = {}
    /\ returned[2] \cap {30, 31} = {}
    /\ returned[3] = {0}

\* the bits of the stream of words: bit p is bit p mod 32 of word p div 32
StreamBits(words) ==
    UNION {PlacedAt(words[w], 32 * (w - 1)) : w \in 1..Len(words)}

\* C25: after SimpleBitPacking.compress of a non-empty list of integers in
\* 0 .. 2^32 - 1, the returned list has ceil(len * bits_per_element / 32)
\* words, the bits i * bits_per_element .. (i + 1) * bits_per_element - 1 of
\* its stream are element i, nothing else is set, and every field lies
\* within the words of the list.
C25_SimpleLayout ==
    (cls = "simple" /\ call.op = "compress" /\ call.array # <<>> /\ Unsigned32(call.array))
    => LET array == call.array
           bits == self.bits_per_element
       IN /\ bits \in 1..32
          /\ Len(returned) = (Len(array) * bits + 31) \div 32
          /\ \A i \in 0..(Len(array) - 1) :
                 /\ array[i + 1] \subseteq 0..(bits - 1)
                 /\ (i * bits + bits - 1) \div 32 < Len(returned)
          /\ StreamBits(returned)
                 = UNION {PlacedAt(array[i + 1], i * bits) : i \in 0..(Len(array) - 1)}

\* 22 values of 3 bits in 3 words: element 10 lies in bits 30 .. 32, across
\* the first and the second word
C25_Witness ==
    /\ cls = "simple"
    /\ call.op = "compress"
    /\ call.array = Cycle(22, 0, 3, 8)
    /\ self.bits_per_element = 3
    /\ Len(returned) = 3
    /\ call.array[11] = PyInt(1)
    /\ 30 \in returned[1]
    /\ 31 \notin returned[1]
    /\ 0 \notin returned[2]

\* the positions of the stream a field of num_bits bits at start_bit takes
FieldBits(start_bit, num_bits) == start_bit..(start_bit + num_bits - 1)

\* C26: a field of 1 .. 32 bits that lies inside the array and whose bits are
\* all zero before the write reads back, at the same start bit and width, as
\* the value masked to num_bits bits, and the write changes no bit outside the
\* field and not the length; with num_bits = 0 the write changes nothing and
\* the read returns 0.
C26_WriteReadFrame ==
    call.op = "_write_bits, _read_bits"
    => /\ call.num_bits = 0 => (call.after = call.array /\ call.read = {})
       /\ (/\ call.num_bits > 0
           /\ call.start_bit + call.num_bits <= 32 * Len(call.array)
           /\ StreamBits(call.array) \cap FieldBits(call.start_bit, call.num_bits) = {})
          => /\ call.read = {b \in call.value : b < call.num_bits}
             /\ Len(call.after) = Len(call.array)
             /\ StreamBits(call.after) \ FieldBits(call.start_bit, call.num_bits)
                    = StreamBits(call.array)
             /\ \A w \in 1..Len(call.after) : call.after[w] \subseteq 0..31

\* 17 bits of 2^32 - 1 written at bit 30 of two words that hold bits 1 and 62:
\* the field crosses into the second word and reads back as 2^17 - 1
C26_Witness ==
    /\ call.op = "_write_bits, _read_bits"
    /\ call.array = <<{1}, {30}>>
    /\ call.start_bit = 30
    /\ call.num_bits = 17
    /\ call.value = Mask(32)
    /\ call.after = <<{1, 30, 31}, 0..14 \cup {30}>>
    /\ call.read = Mask(17)

\* the field of element index in the main words of buffer
FieldOf(buffer, index) ==
    Overflow_read_bits(Slice(buffer, 0, num_main_ints(self)),
                       index * total_bits_per_element(self),
                       total_bits_per_element(self))

\* the field of element index has the flag bit set and an index at or beyond
\* the number of words of buffer after the main words
CorruptReference(buffer, index) ==
    /\ self.has_overflow_bit
    /\ self.main_bits \in FieldOf(buffer, index)
    /\ ToNat(BitAnd(FieldOf(buffer, index), Mask(self.main_bits)))
           >= Len(buffer) - num_main_ints(self)

\* C27: decompress of a non-empty buffer puts 0 at every position whose field
\* is a reference past the overflow words of that buffer, and get returns 0
\* for an index whose field is a reference past the overflow words of the
\* stored buffer; neither call fails.
C27_CorruptReferenceIsZero ==
    /\ (cls = "overflow" /\ call.op = "decompress" /\ call.array # <<>>)
       => /\ Len(call.result) = self.original_length
          /\ \A i \in 0..(self.original_length - 1) :
                 CorruptReference(call.array, i) => call.result[i + 1] = {}
    /\ (cls = "overflow" /\ call.op = "get" /\ ValidIndex(call.index, last_input)
            /\ self.original_length = Len(last_input)
            /\ CorruptReference(self.compressed_data, call.index))
       => (call.error = "none" /\ call.value = {})

\* the last word of the stored buffer was deleted: get of an element that was
\* 2048, the second value of the table, returns 0
C27_Witness ==
    /\ cls = "overflow"
    /\ call.op = "get"
    /\ last_input = List(<<1024, 1, 2, 1024, 3, 4, 5, 2048>>)
    /\ call.index = 7
    /\ Len(self.compressed_data) = 3
    /\ CorruptReference(self.compressed_data, 7)
    /\ call.error = "none"
    /\ call.value = {}

\* ------------------------------------------- _zigzag_encode, _zigzag_decode
\* signed 32-bit integers: -24 .. 24 and, for each k, 2^k, 2^k - 1, -2^k and
\* -2^k - 1, up to 2^31 - 1 and down to -2^31
ZigZagValues ==
    {PyInt(n) : n \in (-24)..24}
    \cup {{k} : k \in 0..30}
    \cup {Mask(k) : k \in 0..31}
    \cup {{b \in 0..IntBits : b >= k} : k \in 0..31}
    \cup {{b \in 0..IntBits : b # k} : k \in 0..30}

\* a caller encodes a value and decodes the code
ZigZagCode(value) ==
    /\ cls = "zigzag"
    /\ call' = [op |-> "_zigzag_encode", value |-> value,
                encoded |-> zigzag_encode(value),
                decoded |-> zigzag_decode(zigzag_encode(value))]
    /\ UNCHANGED <<cls, self, last_input, returned, matched, pending, objects>>

NextZigZag == \E value \in ZigZagValues : ZigZagCode(value)

SpecZigZag == Init /\ [][NextZigZag]_vars

C29_WidthPositive ==
    (call.op = "compress" /\ call.array # <<>>) => self.bits_per_element >= 1

\* ------------------------------------------------ a new instance, no compress
\* indexes below, at and above 0, one of them far above
FreshIndexes == ((-2)..9) \cup {1000000}

\* the empty list, lists of 1, 2 and 3 words, and the lists instances of the
\* four classes returned for the data of src/tests.py
FreshBuffers ==
    { <<>>, <<PyInt(5)>>, <<PyInt(5), PyInt(7)>>, <<PyInt(-3), PyInt(0), Big>>,
      <<Mask(32), PyInt(1), PyInt(2)>> }
    \cup {compress(c, New(c), array).ret : c \in Classes, array \in TestData}

\* get and decompress are called, compress is not
NextFresh ==
    \/ \E index \in FreshIndexes : Get(index)
    \/ \E compressed_array \in FreshBuffers : Decompress(compressed_array)

SpecFresh == Init /\ [][NextFresh]_vars

\* C30: on an instance on which compress was never called, every get raises
\* IndexError and every decompress returns the empty list.
C30_FreshInstance ==
    /\ call.op = "get" => call.error = "IndexError"
    /\ call.op = "decompress" => call.result = <<>>

\* a new OverflowBitPacking is given the four words another instance returned
\* for the list with two outliers
C30_Witness ==
    /\ cls = "overflow"
    /\ call.op = "decompress"
    /\ call.array = compress("overflow", New("overflow"),
                             List(<<1024, 1, 2, 1024, 3, 4, 5, 2048>>)).ret
    /\ Len(call.array) = 4
    /\ call.result = <<>>
    /\ self = New("overflow")

====
